---- MODULE Spec2Model ----
(***************************************************************************)
(* Model of the rustgrad scalar autograd engine (src/src/value.rs) and of  *)
(* the training loop that drives it (src/src/main.rs, neural_net.rs).      *)
(*                                                                         *)
(* Every Rc<RefCell<ValueBody>> is one entry of the arena `nodes`; a Value *)
(* handle is the index of its body.  Numbers are f32 values, infinities   *)
(* and NaN included, and every operation rounds as f32 does.  RefCell      *)
(* borrows are replayed event by event so that a BorrowError /             *)
(* BorrowMutError panic is a reachable outcome of the model whenever the   *)
(* code would raise one.                                                   *)
(***************************************************************************)
EXTENDS Integers, Sequences, FiniteSets, TLC

\* nodes       the arena of ValueBody records, in construction order
\* held        the handles (indices) the driver holds
\* mode        "idle", or the phase of the running compute_gradients call
\*             ("clear", "grad"), or "panicked"
\* stack       the call stack of the running recursive walk
\* mutBorrows  the bodies whose RefCell is mutably borrowed
\* client      the driver of the engine: "any", "main" or "doc"
\* calls, builds, iter   the calls, graph-building calls and training
\*             iterations made so far
\* passes      the gradient walks started so far (compute_gradients and
\*             compute_gradients_recursive calls)
\* lastCall    the last call made on the engine
\* prev        the gradients at the start of a compute_gradients call that
\*             repeats the call before it
\* libm        what powf has returned so far, by its arguments
VARIABLES client, nodes, held, mode, stack, mutBorrows, calls, builds, passes,
          lastCall, prev, iter, libm

vars == <<client, nodes, held, mode, stack, mutBorrows, calls, builds, passes,
          lastCall, prev, iter, libm>>

(***************************************************************************)
(* Bounds of the explored state space.                                     *)
(***************************************************************************)
MaxCalls == 4
MaxBuilds == 3
MaxIters == 2

(***************************************************************************)
(* f32 arithmetic.  A value is NaN, an infinity, or sign * m * 2^e with m  *)
(* zero or odd and below 2^24 (so that equal numbers are equal records;    *)
(* the two zeros are distinct).  Every operation computes the exact result *)
(* and rounds it once, to nearest, ties to even, as IEEE 754 binary32.     *)
(***************************************************************************)
NaN == [k |-> "nan", s |-> 1, m |-> 0, e |-> 0]
Inf(s) == [k |-> "inf", s |-> s, m |-> 0, e |-> 0]
Fin(s, m, e) == [k |-> "fin", s |-> s, m |-> m, e |-> e]
FZero(s) == Fin(s, 0, 0)

IsNaN(x) == x.k = "nan"
IsInf(x) == x.k = "inf"
IsFin(x) == x.k = "fin"
IsZero(x) == x.k = "fin" /\ x.m = 0

Max(a, b) == IF a >= b THEN a ELSE b

RECURSIVE BitLen(_)
BitLen(n) == IF n = 0 THEN 0 ELSE 1 + BitLen(n \div 2)

RECURSIVE Canon(_, _, _)
Canon(s, m, e) ==
    IF m = 0 THEN FZero(s)
    ELSE IF m % 2 = 0 THEN Canon(s, m \div 2, e + 1)
    ELSE Fin(s, m, e)

\* Overflow of the rounded mantissa q gives an infinity.
Finish(s, q, e) == IF BitLen(q) + e > 128 THEN Inf(s) ELSE Canon(s, q, e)

\* Round to nearest, ties to even: c compares the dropped part with one half
\* (1 above, 0 equal, -1 below) before the sticky part is counted.
RoundUp(s, q, e, c, sticky) ==
    Finish(s, IF c = 1 \/ (c = 0 /\ (sticky \/ q % 2 = 1)) THEN q + 1 ELSE q, e)

HalfCmp(rem, half) == IF rem > half THEN 1 ELSE IF rem = half THEN 0 ELSE -1

\* m < 2^31: with 31 bits dropped nothing is kept and one half is 2^30, with
\* more the value is below one half.
RoundDrop(s, m, e, sticky, drop) ==
    IF drop = 0 THEN Finish(s, m, e)
    ELSE IF drop > 31 THEN FZero(s)
    ELSE IF drop = 31 THEN RoundUp(s, 0, e + drop, HalfCmp(m, 2^30), sticky)
    ELSE RoundUp(s, m \div 2^drop, e + drop, HalfCmp(m % 2^drop, 2^(drop - 1)), sticky)

\* The f32 nearest to sign * (m + d) * 2^e, where 0 < d < 1 if `sticky` and
\* d = 0 otherwise; m < 2^31, and m has at least 26 bits when `sticky`.  The
\* mantissa keeps 24 bits, fewer below 2^-126 (subnormal numbers).
Dropped(m, e) == Max(0, Max(BitLen(m) - 24, (0 - 149) - e))

Round(s, m, e, sticky) == RoundDrop(s, m, e, sticky, Dropped(m, e))

\* The same value cut toward zero, and rounded away from zero.
Toward(s, m, e, drop) ==
    IF drop >= 31 THEN FZero(s) ELSE Finish(s, m \div 2^drop, e + drop)

Away(s, m, e, sticky, drop) ==
    IF drop >= 31 THEN Finish(s, IF m > 0 \/ sticky THEN 1 ELSE 0, e + drop)
    ELSE Finish(s, m \div 2^drop + (IF sticky \/ m % 2^drop # 0 THEN 1 ELSE 0), e + drop)

\* The f32 values next to sign * (m + d) * 2^e on either side: one value when
\* it is an f32 itself.
Around(s, m, e, sticky) ==
    {Toward(s, m, e, Dropped(m, e)), Away(s, m, e, sticky, Dropped(m, e))}

FromInt(n) == IF n < 0 THEN Canon(-1, -n, 0) ELSE Canon(1, n, 0)
Zero == FromInt(0)
One == FromInt(1)

FNeg(x) == IF IsNaN(x) THEN x ELSE [x EXCEPT !.s = -x.s]

\* Numeric equality of two values that are not NaN: the zeros are equal.
FEq(x, y) == x = y \/ (IsZero(x) /\ IsZero(y))

\* The exact product of two mantissas as hi * 2^24 + lo.
Wide(a, b) ==
    LET ah == a \div 4096
        al == a % 4096
        bh == b \div 4096
        bl == b % 4096
        cross == ah * bl + al * bh
        lo0 == al * bl + (cross % 4096) * 4096
    IN  [hi |-> ah * bh + cross \div 4096 + lo0 \div 16777216, lo |-> lo0 % 16777216]

\* The product w * 2^e, cut to 30 bits.
MulShift(s, w, e, t) ==
    Round(s, w.hi * 2^(24 - t) + w.lo \div 2^t, e + t, w.lo % 2^t # 0)

MulWide(s, w, e) == MulShift(s, w, e, BitLen(w.hi) - 6)

FMul(x, y) ==
    IF IsNaN(x) \/ IsNaN(y) THEN NaN
    ELSE IF IsInf(x) \/ IsInf(y)
    THEN IF IsZero(x) \/ IsZero(y) THEN NaN ELSE Inf(x.s * y.s)
    ELSE IF x.m = 0 \/ y.m = 0 THEN FZero(x.s * y.s)
    ELSE IF BitLen(x.m) + BitLen(y.m) <= 31
    THEN Round(x.s * y.s, x.m * y.m, x.e + y.e, FALSE)
    ELSE MulWide(x.s * y.s, Wide(x.m, y.m), x.e + y.e)

\* sx * mx + sy * (my + d), times 2^e, where 0 < d < 1 if st: the signed sum t
\* of the mantissas, one less when a part of my is left out of a difference.
AddSigned(sx, t, e, st) ==
    IF t = 0 /\ ~st THEN FZero(1)
    ELSE Round(IF t < 0 THEN -sx ELSE sx, IF t < 0 THEN -t ELSE t, e, st)

AddMantissas(sx, mx, sy, my, e, st) ==
    AddSigned(sx, IF sx = sy THEN mx + my ELSE mx - my - (IF st THEN 1 ELSE 0), e, st)

\* my * 2^d is brought to the exponent of mx; the bits shifted out are sticky.
AddShifted(sx, mx, sy, my, d, e) ==
    AddMantissas(sx, mx, sy,
                 IF d >= 0 THEN my * 2^d ELSE IF d <= -31 THEN 0 ELSE my \div 2^(-d),
                 e, d < 0 /\ (d <= -31 \/ my % 2^(-d) # 0))

\* x is widened to 30 bits by the shift sh.
AddWidened(x, y, sh) == AddShifted(x.s, x.m * 2^sh, y.s, y.m, y.e - (x.e - sh), x.e - sh)

\* Both finite and nonzero, the top bit of x not below that of y.
AddAligned(x, y) == AddWidened(x, y, 30 - BitLen(x.m))

TopNotBelow(x, y) == BitLen(x.m) + x.e >= BitLen(y.m) + y.e

FAdd(x, y) ==
    IF IsNaN(x) \/ IsNaN(y) THEN NaN
    ELSE IF IsInf(x) THEN (IF IsInf(y) /\ y.s # x.s THEN NaN ELSE x)
    ELSE IF IsInf(y) THEN y
    ELSE IF x.m = 0 /\ y.m = 0 THEN (IF x.s = y.s THEN x ELSE FZero(1))
    ELSE IF x.m = 0 THEN y
    ELSE IF y.m = 0 THEN x
    ELSE AddAligned(IF TopNotBelow(x, y) THEN x ELSE y, IF TopNotBelow(x, y) THEN y ELSE x)

FSub(x, y) == FAdd(x, FNeg(y))

IsPositive(d) == ~IsNaN(d) /\ ~IsZero(d) /\ d.s = 1

\* x > y
FGt(x, y) == IsPositive(FSub(x, y))

\* Long division: the quotient bits of (q + r / b), extended to 30 bits.
RECURSIVE DivBits(_, _, _, _)
DivBits(q, r, b, n) ==
    IF BitLen(q) >= 30 THEN [q |-> q, r |-> r, n |-> n]
    ELSE IF 2 * r >= b THEN DivBits(2 * q + 1, 2 * r - b, b, n + 1)
    ELSE DivBits(2 * q, 2 * r, b, n + 1)

\* a / b for mantissas a, b > 0 (b < 2^30) and sign s, times 2^e.
DivFinish(s, d, e) == Round(s, d.q, e - d.n, d.r # 0)

DivRound(s, a, b, e) == DivFinish(s, DivBits(a \div b, a % b, b, 0), e)

FDiv(x, y) ==
    IF IsNaN(x) \/ IsNaN(y) THEN NaN
    ELSE IF IsInf(x) THEN (IF IsInf(y) THEN NaN ELSE Inf(x.s * y.s))
    ELSE IF IsInf(y) THEN FZero(x.s * y.s)
    ELSE IF y.m = 0 THEN (IF x.m = 0 THEN NaN ELSE Inf(x.s * y.s))
    ELSE IF x.m = 0 THEN FZero(x.s * y.s)
    ELSE DivRound(x.s * y.s, x.m, y.m, x.e - y.e)

\* The decimal literal n/d.  (A literal with finitely many binary digits
\* is exact; 0.0001 is rounded as the compiler rounds it.)
Lit(n, d) == FDiv(FromInt(n), FromInt(d))

\* f32::max: a NaN operand is ignored, and of two zeros either may be returned.
FMaxOutcomes(x, y) ==
    IF IsNaN(x) THEN {y}
    ELSE IF IsNaN(y) THEN {x}
    ELSE IF IsZero(x) /\ IsZero(y) THEN {x, y}
    ELSE IF FGt(y, x) THEN {y} ELSE {x}

IsInteger(y) == IsFin(y) /\ y.e >= 0
IsOddInteger(y) == IsFin(y) /\ y.e = 0 /\ y.m # 0
\* |x| < 1, for x finite
BelowOne(x) == x.m = 0 \/ BitLen(x.m) + x.e <= 0

\* Natural numbers of any size, for the exact powers of a mantissa: the
\* digits to the base 4096, the lowest first, the highest not 0.
RECURSIVE BigOf(_)
BigOf(n) == IF n = 0 THEN <<>> ELSE <<n % 4096>> \o BigOf(n \div 4096)

RECURSIVE BigInt(_)
BigInt(a) == IF a = <<>> THEN 0 ELSE Head(a) + 4096 * BigInt(Tail(a))

\* a * k + c, for k below 4096
RECURSIVE BigTimes(_, _, _)
BigTimes(a, k, c) ==
    IF a = <<>> THEN BigOf(c)
    ELSE <<(Head(a) * k + c) % 4096>> \o BigTimes(Tail(a), k, (Head(a) * k + c) \div 4096)

Digit(a) == IF a = <<>> THEN 0 ELSE Head(a)
Rest(a) == IF a = <<>> THEN <<>> ELSE Tail(a)

RECURSIVE BigPlus(_, _, _)
BigPlus(a, b, c) ==
    IF a = <<>> /\ b = <<>> THEN BigOf(c)
    ELSE <<(Digit(a) + Digit(b) + c) % 4096>>
         \o BigPlus(Rest(a), Rest(b), (Digit(a) + Digit(b) + c) \div 4096)

\* a * m, for a > 0 and 0 < m < 2^24
BigMul(a, m) ==
    IF m < 4096 THEN BigTimes(a, m, 0)
    ELSE BigPlus(BigTimes(a, m % 4096, 0), <<0>> \o BigTimes(a, m \div 4096, 0), 0)

\* a * m^n
RECURSIVE BigPowUpTo(_, _, _)
BigPowUpTo(a, m, n) == IF a = <<>> \/ n = 0 THEN a ELSE BigPowUpTo(BigMul(a, m), m, n - 1)

\* Sixteen factors at a time, which keeps the evaluation shallow.
RECURSIVE BigPowFrom(_, _, _)
BigPowFrom(a, m, n) ==
    IF n <= 16 THEN BigPowUpTo(a, m, n) ELSE BigPowFrom(BigPowUpTo(a, m, 16), m, n - 16)

BigPow(m, n) == BigPowFrom(<<1>>, m, n)

BigBitLen(a) == IF a = <<>> THEN 0 ELSE 12 * (Len(a) - 1) + BitLen(a[Len(a)])

RECURSIVE BigGeFrom(_, _, _)
BigGeFrom(a, b, i) ==
    IF i = 0 THEN TRUE
    ELSE IF a[i] # b[i] THEN a[i] > b[i]
    ELSE BigGeFrom(a, b, i - 1)

BigGe(a, b) == IF Len(a) # Len(b) THEN Len(a) > Len(b) ELSE BigGeFrom(a, b, Len(a))

RECURSIVE BigTrim(_)
BigTrim(a) ==
    IF a # <<>> /\ a[Len(a)] = 0 THEN BigTrim(SubSeq(a, 1, Len(a) - 1)) ELSE a

\* a - b - c, for a >= b + c, with the digits of a
RECURSIVE BigMinus(_, _, _)
BigMinus(a, b, c) ==
    IF a = <<>> THEN <<>>
    ELSE <<(4096 + Head(a) - Digit(b) - c) % 4096>>
         \o BigMinus(Tail(a), Rest(b), IF Head(a) - Digit(b) - c < 0 THEN 1 ELSE 0)

BigPowerOfTwo(k) == [i \in 1..(k \div 12 + 1) |-> IF i <= k \div 12 THEN 0 ELSE 2^(k % 12)]

\* a * 2^n
BigShift(a, n) == [i \in 1..(n \div 12) |-> 0] \o BigTimes(a, 2^(n % 12), 0)

\* The digits of a from digit q + 1 on, r bits lower.
BigCutBits(a, q, r) ==
    BigTrim([i \in 1..(Len(a) - q) |->
                a[q + i] \div 2^r
                + (IF q + i < Len(a) THEN (a[q + i + 1] % 2^r) * 2^(12 - r) ELSE 0)])

\* a \div 2^n, and whether a bit of a was dropped
BigCut(a, n) ==
    [q |-> BigCutBits(a, n \div 12, n % 12),
     st |-> a[n \div 12 + 1] % 2^(n % 12) # 0 \/ \E i \in 1..(n \div 12) : a[i] # 0]

\* Long division by d: the quotient q and the remainder r of the bits taken
\* so far, then n more bits of a dividend whose other bits are 0.  Once the
\* remainder is 0 the other bits of the quotient are 0.
QuotientTake(v, r2, d) ==
    IF BigGe(r2, d) THEN [q |-> BigTimes(v.q, 2, 1), r |-> BigTrim(BigMinus(r2, d, 0))]
    ELSE [q |-> BigTimes(v.q, 2, 0), r |-> r2]

RECURSIVE QuotientUpTo(_, _, _)
QuotientUpTo(v, d, n) ==
    IF n = 0 THEN v
    ELSE IF v.r = <<>> THEN [q |-> BigShift(v.q, n), r |-> <<>>]
    ELSE QuotientUpTo(QuotientTake(v, BigTimes(v.r, 2, 0), d), d, n - 1)

\* Sixteen bits at a time, which keeps the evaluation shallow.
RECURSIVE QuotientBits(_, _, _)
QuotientBits(v, d, n) ==
    IF n <= 16 THEN QuotientUpTo(v, d, n) ELSE QuotientBits(QuotientUpTo(v, d, 16), d, n - 16)

\* 2^t \div d and the remainder, for d > 0 of len bits and t >= len - 1
BigQuotient(d, len, t) ==
    QuotientBits(QuotientTake([q |-> <<>>, r |-> <<>>], BigPowerOfTwo(len - 1), d), d, t - (len - 1))

\* The two bits of a at the places 2i and 2i + 1.
PairAt(a, i) == (a[i \div 6 + 1] \div 4^(i % 6)) % 4

\* Square root by pairs of bits, the pairs i, i - 1, .. of a still to be
\* taken: q is the root so far and r the remainder.  n pairs are taken.
RECURSIVE SqrtUpTo(_, _, _, _)
SqrtTake(a, i, q, r4, t, n) ==
    IF BigGe(r4, t)
    THEN SqrtUpTo(a, i - 1, [q |-> BigTimes(q, 2, 1), r |-> BigTrim(BigMinus(r4, t, 0))], n - 1)
    ELSE SqrtUpTo(a, i - 1, [q |-> BigTimes(q, 2, 0), r |-> r4], n - 1)

SqrtUpTo(a, i, v, n) ==
    IF n = 0 THEN v
    ELSE SqrtTake(a, i, v.q, BigTimes(v.r, 4, PairAt(a, i)), BigTimes(v.q, 4, 1), n)

\* Sixteen pairs at a time, which keeps the evaluation shallow.
RECURSIVE SqrtFrom(_, _, _)
SqrtFrom(a, i, v) ==
    IF i < 16 THEN SqrtUpTo(a, i, v, i + 1)
    ELSE SqrtFrom(a, i - 16, SqrtUpTo(a, i, v, 16))

BigSqrt(a) == SqrtFrom(a, (BigBitLen(a) + 1) \div 2 - 1, [q |-> <<>>, r |-> <<>>])

\* The root of order 2^k of a, rounded down, and whether it is inexact.
RECURSIVE BigRoot(_, _, _)
BigRootNext(v, k, st) == BigRoot(v.q, k, st \/ v.r # <<>>)

BigRoot(a, k, st) == IF k = 0 THEN [q |-> a, st |-> st] ELSE BigRootNext(BigSqrt(a), k - 1, st)

\* f32::powf is libm's powf.  Its result is within one unit in the last place
\* of the power and is not always the nearest f32, and which neighbour it is
\* depends on the libm that is linked: the outcomes are the f32 values next
\* to the power on either side, one value when the power is an f32 itself.
\* The special cases are those of C Annex F.
\*
\* A finite exponent is y = +-p / 2^k with p odd or k = 0.  The power of a
\* finite nonzero x is computed for p of at most MaxPowerExpBits bits and
\* k <= MaxPowerRootBits, as far as the power p of the mantissa of x has at
\* most MaxPowerBits bits, and wherever the power is seen to overflow or to
\* underflow from the orders of magnitude of x and y alone; beyond that no
\* case applies.
MaxPowerExpBits == 6
MaxPowerRootBits == 2
MaxPowerBits == 512

PowerRoot(y) == IF y.e >= 0 THEN 0 ELSE 0 - y.e
PowerNum(y) == IF y.e >= 0 THEN y.m * 2^y.e ELSE y.m

PowerInRange(x, y) ==
    /\ BitLen(y.m) + Max(0, y.e) <= MaxPowerExpBits
    /\ PowerRoot(y) <= MaxPowerRootBits
    /\ (x.m = 1 \/ PowerNum(y) * BitLen(x.m) <= MaxPowerBits)

\* |x|^p = Radicand * 2^(w * (x.e * p \div w)), for w = 2^k
Radicand(x, p, w) == BigTimes(BigPow(x.m, p), 2^((x.e * p) % w), 0)

RootAround(s, v, e) == Around(s, BigInt(v.q), e, v.st)

RootCut(s, c, k, e) == RootAround(s, BigRoot(c.q, k, c.st), e)

\* The root of order w = 2^k of d * 2^(w * j), to 27 bits or 28, times 2^e.
RootScaled(s, d, j, k, w, e) ==
    IF j >= 0 THEN RootAround(s, BigRoot(BigShift(d, w * j), k, FALSE), e - j)
    ELSE RootCut(s, BigCut(d, w * (0 - j)), k, e - j)

\* The least j that leaves d * 2^(w * j), d of len bits, at least 27 * w bits.
RootShift(len, w) == 0 - ((len - 27 * w) \div w)

PowerUp(s, d, k, w, e) == RootScaled(s, d, RootShift(BigBitLen(d), w), k, w, e)

\* The root of order w = 2^k of 2^(w * j) / d, times 2^(e - j).
PowerDownBy(s, v, j, k, e) == RootAround(s, BigRoot(v.q, k, v.r # <<>>), e - j)

PowerDownTo(s, d, len, j, k, w, e) ==
    PowerDownBy(s, BigQuotient(d, len, w * j), j, k, e)

\* The least j that leaves 2^(w * j) \div d, d of len bits, at least 27 * w bits.
PowerDown(s, d, len, k, w, e) ==
    PowerDownTo(s, d, len, 0 - ((0 - (len + 27 * w)) \div w), k, w, e)

\* |x|^(ys * p / w) with the sign s, for w = 2^k
PowerOf(s, x, ys, p, k, w) ==
    IF ys = 1 THEN PowerUp(s, Radicand(x, p, w), k, w, (x.e * p) \div w)
    ELSE PowerDown(s, Radicand(x, p, w), BigBitLen(Radicand(x, p, w)), k, w,
                   0 - ((x.e * p) \div w))

PowerFinite(x, y) ==
    PowerOf(IF x.s = -1 /\ IsOddInteger(y) THEN -1 ELSE 1, x, y.s,
            PowerNum(y), PowerRoot(y), 2^PowerRoot(y))

\* 2^(Order - 1) <= |x| < 2^Order
Order(x) == BitLen(x.m) + x.e

\* A lower bound of |log2 |x||, 0 when there is none.
LogAtLeast(x) ==
    IF Order(x) >= 2 THEN Order(x) - 1 ELSE IF Order(x) <= 0 - 1 THEN 0 - Order(x) ELSE 0

\* |y * log2 |x|| >= 150 by the orders of magnitude: the power is at least
\* 2^150 or at most 2^-150.
PowerBeyond(x, y) ==
    IF LogAtLeast(x) = 0 \/ Order(y) <= 0 THEN FALSE
    ELSE IF Order(y) >= 9 THEN TRUE
    ELSE LogAtLeast(x) * 2^(Order(y) - 1) >= 150

PowerFar(s, x, y) ==
    IF (Order(x) >= 2) = (y.s = 1) THEN {Inf(s)} ELSE {FZero(s), Fin(s, 1, 0 - 149)}

PowfOutcomes(x, y) ==
    IF IsZero(y) \/ x = One THEN {One}
    ELSE IF IsNaN(x) \/ IsNaN(y) THEN {NaN}
    ELSE IF IsInf(y)
    THEN IF x = FromInt(-1) THEN {One}
         ELSE IF IsFin(x) /\ BelowOne(x)
         THEN (IF y.s = 1 THEN {Zero} ELSE {Inf(1)})
         ELSE (IF y.s = 1 THEN {Inf(1)} ELSE {Zero})
    ELSE IF IsZero(x)
    THEN IF y.s = -1
         THEN (IF IsOddInteger(y) THEN {Inf(x.s)} ELSE {Inf(1)})
         ELSE (IF IsOddInteger(y) THEN {x} ELSE {Zero})
    ELSE IF IsInf(x)
    THEN IF y.s = -1
         THEN (IF x.s = -1 /\ IsOddInteger(y) THEN {FZero(-1)} ELSE {Zero})
         ELSE (IF x.s = -1 /\ IsOddInteger(y) THEN {Inf(-1)} ELSE {Inf(1)})
    ELSE IF ~IsInteger(y) /\ x.s = -1 THEN {NaN}
    ELSE CASE PowerInRange(x, y) -> PowerFinite(x, y)
           [] PowerBeyond(x, y) ->
                PowerFar(IF x.s = -1 /\ IsOddInteger(y) THEN -1 ELSE 1, x, y)

\* The calls cs of powf are within the bounds of the powers computed here.
InRange(cs) ==
    \A c \in cs :
        (IsFin(c[1]) /\ ~IsZero(c[1]) /\ c[1] # One /\ IsFin(c[2]) /\ ~IsZero(c[2])
           /\ (c[1].s = 1 \/ IsInteger(c[2])))
        => (PowerInRange(c[1], c[2]) \/ PowerBeyond(c[1], c[2]))

\* powf is a function: a call returns what the same call returned before.  The
\* tables that extend lm by an outcome for each of the calls cs it has not seen.
RECURSIVE Extend(_, _)
ExtendBy(lm, c, cs) ==
    UNION {Extend(lm @@ (c :> v), cs) : v \in PowfOutcomes(c[1], c[2])}

Extend(lm, cs) ==
    IF cs \subseteq DOMAIN lm THEN {lm}
    ELSE ExtendBy(lm, CHOOSE c \in cs : c \notin DOMAIN lm, cs)

Powf(lm, x, y) == lm[<<x, y>>]

(***************************************************************************)
(* ValueBody and the constructors of Value.  Each constructor returns the  *)
(* arena with the new bodies appended; the handle of the result is the     *)
(* length of the returned arena.                                           *)
(***************************************************************************)
ValueBody(d, c, o) == [data |-> d, children |-> c, gradient |-> Zero, operation |-> o]

value(ns, x) == Append(ns, ValueBody(x, <<>>, "None"))

\* Mutant of add: accumulates into the left operand as well.
addAssign(ns, a, b) ==
    Append([ns EXCEPT ![a].data = FAdd(ns[a].data, ns[b].data)],
           ValueBody(FAdd(ns[a].data, ns[b].data), <<a, b>>, "Addition"))

add(ns, a, b) ==
    Append(ns, ValueBody(FAdd(ns[a].data, ns[b].data), <<a, b>>, "Addition"))

mul(ns, a, b) ==
    Append(ns, ValueBody(FMul(ns[a].data, ns[b].data), <<a, b>>, "Multiplication"))

\* Mutant of subtract: the operands exchanged.
subtractSwapped(ns, a, b) ==
    LET n1 == value(ns, FromInt(-1))
        negative == Len(n1)
        n2 == mul(n1, a, negative)
        neg_v == Len(n2)
    IN  add(n2, b, neg_v)

subtract(ns, a, b) ==
    LET n1 == value(ns, FromInt(-1))
        negative == Len(n1)
        n2 == mul(n1, b, negative)
        neg_v == Len(n2)
    IN  add(n2, a, neg_v)

\* lm is libm's powf.
pow(ns, a, p, lm) ==
    Append(ns, ValueBody(Powf(lm, ns[a].data, ns[p].data), <<a, p>>, "Power"))

squared(ns, a, lm) ==
    LET n1 == value(ns, FromInt(2))
        exponent == Len(n1)
    IN  pow(n1, a, exponent, lm)

\* The calls of powf that pow and squared make.
PowCalls(ns, a, p) == {<<ns[a].data, ns[p].data>>}
SquaredCalls(ns, a) == {<<ns[a].data, FromInt(2)>>}

\* z is the outcome of self.data().max(0.0).
relu(ns, a, z) == Append(ns, ValueBody(z, <<a>>, "Relu"))

\* Mutant of learn: steps along the gradient instead of against it.
learnAscend(ns, n, rate) ==
    [ns EXCEPT ![n].data = FAdd(@, FMul(ns[n].gradient, rate))]

learn(ns, n, rate) ==
    [ns EXCEPT ![n].data = FSub(@, FMul(ns[n].gradient, rate))]

(***************************************************************************)
(* RefCell borrow discipline.  A statement of the code is a sequence of    *)
(* borrow events; Replay runs them against the borrows that are live when  *)
(* the statement starts (the mutable borrows held by the callers' loops)   *)
(* and reports whether RefCell would panic.                                *)
(***************************************************************************)
Borrow(n) == [k |-> "borrow", n |-> n]
Release(n) == [k |-> "release", n |-> n]
BorrowMut(n) == [k |-> "borrow_mut", n |-> n]
ReleaseMut(n) == [k |-> "release_mut", n |-> n]

\* self.data() / self.gradient(): a shared borrow dropped at once.
Read(n) == <<Borrow(n), Release(n)>>

RECURSIVE Replay(_, _, _)
Replay(evs, sh, mu) ==
    IF evs = <<>> THEN [ok |-> TRUE, mut |-> mu]
    ELSE LET e == Head(evs)
             rest == Tail(evs)
         IN  CASE e.k = "borrow" ->
                    IF e.n \in mu THEN [ok |-> FALSE, mut |-> mu]
                    ELSE Replay(rest, [sh EXCEPT ![e.n] = @ + 1], mu)
               [] e.k = "release" ->
                    Replay(rest, [sh EXCEPT ![e.n] = @ - 1], mu)
               [] e.k = "borrow_mut" ->
                    IF e.n \in mu \/ sh[e.n] > 0 THEN [ok |-> FALSE, mut |-> mu]
                    ELSE Replay(rest, sh, mu \cup {e.n})
               [] OTHER ->
                    Replay(rest, sh, mu \ {e.n})

Borrows(evs) == Replay(evs, [n \in 1..Len(nodes) |-> 0], mutBorrows)

(***************************************************************************)
(* compute_gradients_recursive: the match on the operation.  Each arm is   *)
(* given as its effect on the arena and as the borrow events it performs.  *)
(* A compound assignment on f32 evaluates its right operand first.         *)
(***************************************************************************)
AddGradient(ns, c, amount) == [ns EXCEPT ![c].gradient = FAdd(@, amount)]

AdditionArm(ns, n) ==
    LET c == ns[n].children
        n1 == AddGradient(ns, c[1], ns[n].gradient)
    IN  AddGradient(n1, c[2], n1[n].gradient)

AdditionEvents(ns, n) ==
    LET c == ns[n].children
    IN  <<Borrow(n)>>
        \o Read(n) \o <<BorrowMut(c[1]), ReleaseMut(c[1])>>
        \o Read(n) \o <<BorrowMut(c[2]), ReleaseMut(c[2])>>
        \o <<Release(n)>>

\* Mutant of MultiplicationArm: each operand receives its own value.
MultiplicationArmOwnValue(ns, n) ==
    LET lhs == ns[n].children[1]
        rhs == ns[n].children[2]
        n1 == AddGradient(ns, lhs, FMul(ns[lhs].data, ns[n].gradient))
    IN  AddGradient(n1, rhs, FMul(n1[rhs].data, n1[n].gradient))

MultiplicationArm(ns, n) ==
    LET lhs == ns[n].children[1]
        rhs == ns[n].children[2]
        n1 == AddGradient(ns, lhs, FMul(ns[rhs].data, ns[n].gradient))
    IN  AddGradient(n1, rhs, FMul(n1[lhs].data, n1[n].gradient))

\* Mutant of MultiplicationEvents: the assigned place is borrowed before the
\* right operand is evaluated.
MultiplicationEventsPlaceFirst(ns, n) ==
    LET lhs == ns[n].children[1]
        rhs == ns[n].children[2]
    IN  <<Borrow(n), Borrow(n)>>
        \o <<BorrowMut(lhs)>> \o Read(rhs) \o Read(n) \o <<ReleaseMut(lhs)>>
        \o <<BorrowMut(rhs)>> \o Read(lhs) \o Read(n) \o <<ReleaseMut(rhs)>>
        \o <<Release(n), Release(n)>>

MultiplicationEvents(ns, n) ==
    LET lhs == ns[n].children[1]
        rhs == ns[n].children[2]
    IN  <<Borrow(n), Borrow(n)>>
        \o Read(rhs) \o Read(n) \o <<BorrowMut(lhs), ReleaseMut(lhs)>>
        \o Read(lhs) \o Read(n) \o <<BorrowMut(rhs), ReleaseMut(rhs)>>
        \o <<Release(n), Release(n)>>

\* Mutant of PowerArm: the exponent receives the contribution too.
PowerArmBoth(ns, n, lm) ==
    LET base == ns[n].children[1]
        exponent == ns[n].children[2]
        amount == FMul(FMul(ns[exponent].data,
                            Powf(lm, ns[base].data, FSub(ns[exponent].data, One))),
                       ns[n].gradient)
    IN  AddGradient(AddGradient(ns, base, amount), exponent, amount)

PowerArm(ns, n, lm) ==
    LET base == ns[n].children[1]
        exponent == ns[n].children[2]
    IN  AddGradient(ns, base,
            FMul(FMul(ns[exponent].data,
                      Powf(lm, ns[base].data, FSub(ns[exponent].data, One))),
                 ns[n].gradient))

\* The call of powf that the Power arm makes.
PowerCalls(ns, n) ==
    {<<ns[ns[n].children[1]].data, FSub(ns[ns[n].children[2]].data, One)>>}

PowerEvents(ns, n) ==
    LET base == ns[n].children[1]
        exponent == ns[n].children[2]
    IN  <<Borrow(n), Borrow(n)>>
        \o Read(exponent) \o Read(base) \o Read(exponent) \o Read(n)
        \o <<BorrowMut(base), ReleaseMut(base)>>
        \o <<Release(n), Release(n)>>

ReluArm(ns, n) ==
    LET base == ns[n].children[1]
    IN  AddGradient(ns, base,
            IF FGt(ns[base].data, Zero) THEN FMul(One, ns[n].gradient) ELSE Zero)

ReluEvents(ns, n) ==
    LET base == ns[n].children[1]
    IN  <<Borrow(n)>>
        \o Read(base)
        \o (IF FGt(ns[base].data, Zero) THEN Read(n) ELSE <<>>)
        \o <<BorrowMut(base), ReleaseMut(base)>>
        \o <<Release(n)>>

MatchArm(ns, n, lm) ==
    CASE ns[n].operation = "Addition" -> AdditionArm(ns, n)
      [] ns[n].operation = "Multiplication" -> MultiplicationArm(ns, n)
      [] ns[n].operation = "Power" -> PowerArm(ns, n, lm)
      [] ns[n].operation = "Relu" -> ReluArm(ns, n)
      [] OTHER -> ns

MatchCalls(ns, n) == IF ns[n].operation = "Power" THEN PowerCalls(ns, n) ELSE {}

\* The scrutinee's borrow lives until the end of the match; the loop that
\* follows takes the mutable borrow that is held across the recursion.
MatchEvents(ns, n) ==
    <<Borrow(n)>>
    \o (CASE ns[n].operation = "Addition" -> AdditionEvents(ns, n)
          [] ns[n].operation = "Multiplication" -> MultiplicationEvents(ns, n)
          [] ns[n].operation = "Power" -> PowerEvents(ns, n)
          [] ns[n].operation = "Relu" -> ReluEvents(ns, n)
          [] OTHER -> <<>>)
    \o <<Release(n), BorrowMut(n)>>

(***************************************************************************)
(* clear_gradients: the body before its loop.                              *)
(***************************************************************************)
\* Mutant of ClearBody: the gradient is kept.
ClearBodyKeep(ns, n) == ns

ClearBody(ns, n) == [ns EXCEPT ![n].gradient = Zero]

ClearEvents(ns, n) == <<BorrowMut(n), ReleaseMut(n), BorrowMut(n)>>

(***************************************************************************)
(* The call stack of the two recursive walks.  A frame is the node being   *)
(* visited and the position of its loop over the children: 0 before the    *)
(* body has run, k >= 1 when the loop is about to take child k.            *)
(***************************************************************************)
Frame(n, i) == [node |-> n, idx |-> i]

Top == stack[Len(stack)]

Entered(stk) == [stk EXCEPT ![Len(stk)].idx = 1]

\* Mutant of PushChild: the loop does not advance.
PushChildAgain(stk, ns) ==
    LET f == stk[Len(stk)]
    IN  Append(stk, Frame(ns[f.node].children[f.idx], 0))

PushChild(stk, ns) ==
    LET f == stk[Len(stk)]
    IN  Append([stk EXCEPT ![Len(stk)].idx = f.idx + 1],
               Frame(ns[f.node].children[f.idx], 0))

Pop(stk) == SubSeq(stk, 1, Len(stk) - 1)

RECURSIVE Reach(_, _)
Reach(ns, n) ==
    {n} \cup UNION {Reach(ns, ns[n].children[i]) : i \in 1..Len(ns[n].children)}

\* The calls of powf that a walk from r makes.
WalkCalls(ns, r) == UNION {MatchCalls(ns, n) : n \in Reach(ns, r)}

Call(o, a, b, r) == [op |-> o, a |-> a, b |-> b, rate |-> r]
NoCall == Call("none", 0, 0, Zero)
NoPrev == [valid |-> FALSE, grads |-> <<>>]

Gradients(ns) == [n \in 1..Len(ns) |-> ns[n].gradient]

(***************************************************************************)
(* The engine's operations.  Each one leaves the drivers' bookkeeping      *)
(* (client, calls, builds, iter) to the driver that makes the call.        *)
(***************************************************************************)
\* lm is libm's powf after the call.
Built(ns, hs, c, lm) ==
    /\ nodes' = ns
    /\ held' = held \cup hs
    /\ lastCall' = c
    /\ libm' = lm
    /\ UNCHANGED <<mode, stack, mutBorrows, passes, prev>>

Value(x) ==
    /\ mode = "idle"
    /\ Built(value(nodes, x), {Len(nodes) + 1}, Call("value", 0, 0, x), libm)

Add(a, b) ==
    /\ mode = "idle"
    /\ Built(add(nodes, a, b), {Len(nodes) + 1}, Call("add", a, b, Zero), libm)

\* The bodies created inside subtract and squared are owned by the graph only.
Subtract(a, b) ==
    /\ mode = "idle"
    /\ Built(subtract(nodes, a, b), {Len(nodes) + 3}, Call("subtract", a, b, Zero), libm)

\* Powers are explored within the bounds of powf.
Pow(a, p) ==
    /\ mode = "idle"
    /\ InRange(PowCalls(nodes, a, p))
    /\ \E lm \in Extend(libm, PowCalls(nodes, a, p)) :
          Built(pow(nodes, a, p, lm), {Len(nodes) + 1}, Call("pow", a, p, Zero), lm)

Squared(a) ==
    /\ mode = "idle"
    /\ InRange(SquaredCalls(nodes, a))
    /\ \E lm \in Extend(libm, SquaredCalls(nodes, a)) :
          Built(squared(nodes, a, lm), {Len(nodes) + 2}, Call("squared", a, 0, Zero), lm)

Mul(a, b) ==
    /\ mode = "idle"
    /\ Built(mul(nodes, a, b), {Len(nodes) + 1}, Call("mul", a, b, Zero), libm)

Relu(a) ==
    /\ mode = "idle"
    /\ \E z \in FMaxOutcomes(nodes[a].data, Zero) :
          Built(relu(nodes, a, z), {Len(nodes) + 1}, Call("relu", a, 0, Zero), libm)

\* A RefCell panic aborts the program.
Panic ==
    /\ mode' = "panicked"
    /\ UNCHANGED <<nodes, held, stack, mutBorrows, passes, lastCall, prev>>

LearnEvents(n) == Read(n) \o <<BorrowMut(n), ReleaseMut(n)>>

Learn(n, rate) ==
    /\ mode = "idle"
    /\ UNCHANGED libm
    /\ IF Borrows(LearnEvents(n)).ok
       THEN /\ nodes' = learn(nodes, n, rate)
            /\ lastCall' = Call("learn", n, 0, rate)
            /\ UNCHANGED <<held, mode, stack, mutBorrows, passes, prev>>
       ELSE Panic

(***************************************************************************)
(* compute_gradients: the call, then clear_gradients, the seeding of the   *)
(* root and compute_gradients_recursive, one step per statement group.     *)
(***************************************************************************)
\* Walks are explored within the bounds of powf.
ComputeGradients(r) ==
    /\ mode = "idle"
    /\ InRange(WalkCalls(nodes, r))
    /\ mode' = "clear"
    /\ stack' = <<Frame(r, 0)>>
    /\ passes' = passes + 1
    /\ prev' = IF lastCall = Call("compute_gradients", r, 0, Zero)
               THEN [valid |-> TRUE, grads |-> Gradients(nodes)]
               ELSE NoPrev
    /\ lastCall' = Call("compute_gradients", r, 0, Zero)
    /\ UNCHANGED <<nodes, held, mutBorrows, libm>>

\* compute_gradients_recursive is public: a client may call it on a handle
\* directly, without the clearing and the seeding of compute_gradients.
ComputeGradientsRecursive(r) ==
    /\ mode = "idle"
    /\ InRange(WalkCalls(nodes, r))
    /\ mode' = "grad"
    /\ stack' = <<Frame(r, 0)>>
    /\ passes' = passes + 1
    /\ prev' = NoPrev
    /\ lastCall' = Call("compute_gradients_recursive", r, 0, Zero)
    /\ UNCHANGED <<nodes, held, mutBorrows, libm>>

\* Ends a group of statements whose borrows replayed as `b`, with effect `ns`,
\* leaving the walk at `stk` and libm's powf as `lm`.
StepWith(b, ns, stk, m, lm) ==
    /\ UNCHANGED <<client, calls, builds, iter>>
    /\ libm' = lm
    /\ IF b.ok
       THEN /\ nodes' = ns
            /\ stack' = stk
            /\ mutBorrows' = b.mut
            /\ mode' = m
            /\ UNCHANGED <<held, passes, lastCall, prev>>
       ELSE Panic

\* Runs the statements `evs` with effect `ns`, leaving the walk at `stk`.
Step(evs, ns, stk, m) == StepWith(Borrows(evs), ns, stk, m, libm)

\* Where the walk stands: before the body of the visited node, at a child of
\* its loop, or past its last child.
AtBody(m) == mode = m /\ stack # <<>> /\ Top.idx = 0
AtChild(m) == mode = m /\ stack # <<>> /\ Top.idx \in 1..Len(nodes[Top.node].children)
AtEnd(m) == mode = m /\ stack # <<>> /\ Top.idx > Len(nodes[Top.node].children)
AtSeed == mode = "clear" /\ stack = <<>>

ClearGradientsEnter ==
    /\ AtBody("clear")
    /\ Step(ClearEvents(nodes, Top.node), ClearBody(nodes, Top.node), Entered(stack), mode)

ClearGradientsCall ==
    /\ AtChild("clear")
    /\ Step(<<>>, nodes, PushChild(stack, nodes), mode)

ClearGradientsReturn ==
    /\ AtEnd("clear")
    /\ Step(<<ReleaseMut(Top.node)>>, nodes, Pop(stack), mode)

SeedBody(ns, r) == [ns EXCEPT ![r].gradient = One]

Seed ==
    /\ AtSeed
    /\ Step(<<BorrowMut(lastCall.a), ReleaseMut(lastCall.a)>>,
            SeedBody(nodes, lastCall.a), <<Frame(lastCall.a, 0)>>, "grad")

ComputeGradientsRecursiveEnter ==
    /\ AtBody("grad")
    /\ \E lm \in Extend(libm, MatchCalls(nodes, Top.node)) :
          StepWith(Borrows(MatchEvents(nodes, Top.node)), MatchArm(nodes, Top.node, lm),
                   Entered(stack), mode, lm)

ComputeGradientsRecursiveCall ==
    /\ AtChild("grad")
    /\ Step(<<>>, nodes, PushChild(stack, nodes), mode)

ComputeGradientsRecursiveReturn ==
    /\ AtEnd("grad")
    /\ Step(<<ReleaseMut(Top.node)>>, nodes, Pop(stack),
            IF Len(stack) = 1 THEN "idle" ELSE mode)

Walk ==
    \/ ClearGradientsEnter
    \/ ClearGradientsCall
    \/ ClearGradientsReturn
    \/ Seed
    \/ ComputeGradientsRecursiveEnter
    \/ ComputeGradientsRecursiveCall
    \/ ComputeGradientsRecursiveReturn

(***************************************************************************)
(* Driver 1: any client of the engine, making up to MaxCalls calls on the  *)
(* handles it holds.                                                       *)
(***************************************************************************)
LeafValues == {FromInt(-1), FromInt(3)}
Rates == {FromInt(1), FromInt(4)}

\* The client calls between calls of the engine, never inside one.
Idle == client = "any" /\ mode = "idle" /\ calls < MaxCalls
Handles == IF Idle THEN held ELSE {}

AnyBuild(A) ==
    /\ client = "any"
    /\ calls < MaxCalls
    /\ builds < MaxBuilds
    /\ calls' = calls + 1
    /\ builds' = builds + 1
    /\ UNCHANGED <<client, iter>>
    /\ A

AnyCall(A) ==
    /\ client = "any"
    /\ calls < MaxCalls
    /\ calls' = calls + 1
    /\ UNCHANGED <<client, builds, iter>>
    /\ A

(***************************************************************************)
(* Driver 2: the training loop of main.                                    *)
(***************************************************************************)
TrainInputs ==
    << <<FromInt(5), FromInt(5)>>, <<FromInt(4), FromInt(3)>>, <<FromInt(10), FromInt(3)>>, <<FromInt(-15), FromInt(3)>>, <<FromInt(-5), FromInt(3)>> >>
TrainExpected == <<FromInt(10), FromInt(7), FromInt(13), FromInt(-12), FromInt(-2)>>
LearningRate == Lit(1, 10000)
\* rng.gen_range(-1.0..1.0)
ParamValues == {Lit(-1, 2), Lit(1, 2)}

\* NeuralNet::new(vec![2, 1]): one layer of one neuron with two weights.
Net == [weights |-> <<1, 2>>, bias |-> 3]
Params == {1, 2, 3}

RECURSIVE Values(_, _, _)
Values(ns, xs, k) == IF k > Len(xs) THEN ns ELSE Values(value(ns, xs[k]), xs, k + 1)

\* zip(weights, inputs).map(mul).reduce(add): `acc` is the running sum, 0 before
\* the first product.
RECURSIVE WeightedSum(_, _, _, _, _)
WeightedSum(ns, weights, inputs, k, acc) ==
    IF k > Len(weights) \/ k > Len(inputs) THEN [ns |-> ns, out |-> acc]
    ELSE LET n1 == mul(ns, weights[k], inputs[k])
         IN  IF acc = 0
             THEN WeightedSum(n1, weights, inputs, k + 1, Len(n1))
             ELSE WeightedSum(add(n1, acc, Len(n1)), weights, inputs, k + 1, Len(n1) + 1)

AddBias(s, bias) == add(s.ns, s.out, bias)

NeuronForward(ns, neuron, inputs) ==
    AddBias(WeightedSum(ns, neuron.weights, inputs, 1, 0), neuron.bias)

\* predicted[0].subtract(&actual), on the arena n1 whose last body is
\* predicted[0].
SampleDifference(n1, actual) == subtract(n1, Len(n1), actual)

\* inputs.iter().map(forward).zip(expected).map(subtract, squared).reduce(add):
\* n3 ends with the error of sample k and `acc` is the running sum, 0 before
\* the first sample.  The result is one arena for each way powf's table lm
\* extends over the squares.
RECURSIVE SquareError(_, _, _, _, _, _)
SquareErrorReduce(n3, inputs, expected, k, acc, lm) ==
    IF acc = 0
    THEN SquareError(n3, inputs, expected, k + 1, Len(n3), lm)
    ELSE SquareError(add(n3, acc, Len(n3)), inputs, expected, k + 1, Len(n3) + 1, lm)

\* .squared() of the last body of n2
SampleError(n2, inputs, expected, k, acc, lm) ==
    UNION {SquareErrorReduce(squared(n2, Len(n2), l2), inputs, expected, k, acc, l2) :
             l2 \in Extend(lm, SquaredCalls(n2, Len(n2)))}

SquareError(ns, inputs, expected, k, acc, lm) ==
    IF k > Len(inputs) \/ k > Len(expected) THEN {[ns |-> ns, out |-> acc, lm |-> lm]}
    ELSE SampleError(SampleDifference(NeuronForward(ns, Net, inputs[k]), expected[k]),
                     inputs, expected, k, acc, lm)

\* The handles of sample k's inputs, created in order after `base` bodies.
InputHandles(base) ==
    [k \in 1..Len(TrainInputs) |-> <<base + 2 * k - 1, base + 2 * k>>]
ExpectedHandles(base) == [k \in 1..Len(TrainExpected) |-> base + k]

RECURSIVE Flatten(_, _)
Flatten(xss, k) == IF k > Len(xss) THEN <<>> ELSE xss[k] \o Flatten(xss, k + 1)

\* square_error.mul(&inverse_size), inverse_size being the last body of n3.
MeanSquareError(n3, square_error) == mul(n3, square_error, Len(n3))

InverseSize(se) ==
    [ns |-> MeanSquareError(value(se.ns, FDiv(One, FromInt(Len(TrainInputs)))), se.out),
     lm |-> se.lm]

\* The inputs are the bodies after base0 and the expected outputs those after
\* base1.
LossErrors(n2, base0, base1, lm) ==
    {InverseSize(se) :
       se \in SquareError(n2, InputHandles(base0), ExpectedHandles(base1), 1, 0, lm)}

LossExpected(n1, base0, lm) == LossErrors(Values(n1, TrainExpected, 1), base0, Len(n1), lm)

\* One pass of the loop body up to the loss.  The bodies of the previous
\* iteration have gone out of scope; they stay in the arena, unreachable, since
\* a body is never reused for another value.
LossGraph(ns, lm) == LossExpected(Values(ns, Flatten(TrainInputs, 1), 1), Len(ns), lm)

TrainForward ==
    /\ client = "main"
    /\ mode = "idle"
    /\ lastCall.op \in {"none", "learn"}
    /\ iter < MaxIters
    /\ \E g \in LossGraph(nodes, libm) :
          /\ nodes' = g.ns
          /\ libm' = g.lm
    /\ held' = Params \cup {Len(nodes')}
    /\ lastCall' = Call("forward", Len(nodes'), 0, Zero)
    /\ UNCHANGED <<client, mode, stack, mutBorrows, calls, builds, passes, prev, iter>>

TrainComputeGradients ==
    /\ client = "main"
    /\ lastCall.op = "forward"
    /\ ComputeGradients(lastCall.a)
    /\ UNCHANGED <<client, calls, builds, iter>>

TrainLearn ==
    /\ client = "main"
    /\ lastCall.op = "compute_gradients"
    /\ Learn(lastCall.a, LearningRate)
    /\ iter' = iter + 1
    /\ UNCHANGED <<client, calls, builds>>

(***************************************************************************)
(* Driver 3: the example of the doc comment on Value.                      *)
(***************************************************************************)
DocExample ==
    /\ client = "doc"
    /\ calls' = calls + 1
    /\ UNCHANGED <<client, builds, iter>>
    /\ CASE calls = 0 -> Value(FromInt(2))
         [] calls = 1 -> Value(FromInt(3))
         [] calls = 2 -> Value(FromInt(4))
         [] calls = 3 -> Mul(1, 2)
         [] calls = 4 -> Add(4, 3)
         [] calls = 5 -> ComputeGradients(5)
         [] OTHER -> FALSE

(***************************************************************************)
(* State after construction: no Value exists, or only the parameters of    *)
(* the network built by main.                                              *)
(***************************************************************************)
Init ==
    /\ client \in {"any", "main", "doc"}
    /\ IF client = "main"
       THEN /\ \E w1, w2, b \in ParamValues : nodes = Values(<<>>, <<w1, w2, b>>, 1)
            /\ held = Params
       ELSE /\ nodes = <<>>
            /\ held = {}
    /\ mode = "idle"
    /\ stack = <<>>
    /\ mutBorrows = {}
    /\ calls = 0
    /\ builds = 0
    /\ passes = 0
    /\ lastCall = NoCall
    /\ prev = NoPrev
    /\ iter = 0
    /\ libm = <<>>

Next ==
    \/ \E x \in LeafValues : AnyBuild(Value(x))
    \/ \E a, b \in Handles : AnyBuild(Add(a, b))
    \/ \E a, b \in Handles : AnyBuild(Subtract(a, b))
    \/ \E a, p \in Handles : AnyBuild(Pow(a, p))
    \/ \E a \in Handles : AnyBuild(Squared(a))
    \/ \E a, b \in Handles : AnyBuild(Mul(a, b))
    \/ \E a \in Handles : AnyBuild(Relu(a))
    \/ \E n \in Handles, rate \in Rates : AnyCall(Learn(n, rate))
    \/ \E r \in Handles : AnyCall(ComputeGradients(r))
    \/ \E r \in Handles : AnyCall(ComputeGradientsRecursive(r))
    \/ TrainForward
    \/ TrainComputeGradients
    \/ TrainLearn
    \/ DocExample
    \/ Walk

Spec == Init /\ [][Next]_vars

(***************************************************************************)
(* Vocabulary of the properties.                                           *)
(***************************************************************************)
Nodes == 1..Len(nodes)
Root == lastCall.a
IsLeaf(n) == nodes[n].operation = "None"

\* compute_gradients(Root) has returned and no call has been made since.
PassDone == mode = "idle" /\ lastCall.op = "compute_gradients"

\* The local derivative of node r with respect to its i-th operand, times g.
Term(ns, r, i, g) ==
    LET c == ns[r].children
    IN  CASE ns[r].operation = "Addition" -> g
          [] ns[r].operation = "Multiplication" -> FMul(ns[c[3 - i]].data, g)
          [] ns[r].operation = "Power" ->
                IF i = 1
                THEN FMul(FMul(ns[c[2]].data,
                               Powf(libm, ns[c[1]].data, FSub(ns[c[2]].data, One))), g)
                ELSE Zero
          [] ns[r].operation = "Relu" -> IF FGt(ns[c[1]].data, Zero) THEN g ELSE Zero
          [] OTHER -> Zero

\* One term per operand-edge path from r to n: the product of the local
\* derivatives along the path, g being the product down to r.  The products
\* are taken from the root downward and the paths in depth-first order, the
\* edges into n of a node before the paths through its operands.
RECURSIVE PathTerms(_, _, _, _)
PathTerms(ns, r, g, n) ==
    LET c == ns[r].children
        direct(i) == IF c[i] = n THEN <<Term(ns, r, i, g)>> ELSE <<>>
        below(i) == IF c[i] = n THEN <<>>
                    ELSE PathTerms(ns, c[i], FAdd(Zero, Term(ns, r, i, g)), n)
    IN  IF Len(c) = 0 THEN <<>>
        ELSE IF Len(c) = 1 THEN direct(1) \o below(1)
        ELSE direct(1) \o direct(2) \o below(1) \o below(2)

RECURSIVE Sum(_, _)
Sum(acc, xs) == IF xs = <<>> THEN acc ELSE Sum(FAdd(acc, Head(xs)), Tail(xs))

\* The sum, over the operand-edge paths from r to n, of the product of the
\* local derivatives along the path.
PathSum(ns, r, n) == IF r = n THEN One ELSE Sum(Zero, PathTerms(ns, r, One, n))

\* The number of operand-edge paths from r to n.
RECURSIVE PathCount(_, _, _)
PathCount(ns, r, n) ==
    IF r = n THEN 1
    ELSE LET c == ns[r].children
         IN  IF Len(c) = 0 THEN 0
             ELSE IF Len(c) = 1 THEN PathCount(ns, c[1], n)
             ELSE PathCount(ns, c[1], n) + PathCount(ns, c[2], n)

\* C1: after compute_gradients(root), every node reachable from root holds the
\* sum over all paths from root of the product of the local derivatives.
GradientIsPathSum ==
    PassDone =>
        \A n \in Reach(nodes, Root) : FEq(nodes[n].gradient, PathSum(nodes, Root, n))

\* Every derived node below r is reached by exactly one path.
DerivedOnce(ns, r) ==
    \A n \in Reach(ns, r) : ns[n].operation # "None" => PathCount(ns, r, n) = 1

\* C2: when every derived node is reached by one path only, each leaf (used any
\* number of times) holds one contribution per operand edge that reaches it;
\* add(x, x) gives x the gradient 2 and x.mul(y).add(z) gives y.value, x.value, 1.
LeafGradientPerEdge ==
    /\ (PassDone /\ DerivedOnce(nodes, Root)) =>
          \A n \in Reach(nodes, Root) : FEq(nodes[n].gradient, PathSum(nodes, Root, n))
    /\ (PassDone /\ nodes[Root].operation = "Addition"
          /\ nodes[Root].children[1] = nodes[Root].children[2]
          /\ IsLeaf(nodes[Root].children[1])) =>
          nodes[nodes[Root].children[1]].gradient = FromInt(2)
    /\ (PassDone /\ client = "doc") =>
          /\ nodes[1].gradient = nodes[2].data
          /\ nodes[2].gradient = nodes[1].data
          /\ nodes[3].gradient = One

WitnessLeafGradientPerEdge ==
    /\ PassDone
    /\ client = "doc"
    /\ nodes[5].children = <<4, 3>>
    /\ nodes[4].children = <<1, 2>>
    /\ <<nodes[1].gradient, nodes[2].gradient, nodes[3].gradient>> = <<FromInt(3), FromInt(2), FromInt(1)>>

\* The step that runs the match of compute_gradients_recursive on a Power node.
PowerVisit ==
    /\ mode = "grad"
    /\ stack # <<>>
    /\ Top.idx = 0
    /\ nodes[Top.node].operation = "Power"

PowerOfLeaves ==
    /\ PassDone
    /\ nodes[Root].operation = "Power"
    /\ nodes[Root].children[1] # nodes[Root].children[2]
    /\ IsLeaf(nodes[Root].children[1])
    /\ IsLeaf(nodes[Root].children[2])

PowerBaseRule ==
    PowerOfLeaves =>
        LET base == nodes[Root].children[1]
            exponent == nodes[Root].children[2]
        IN  /\ FEq(nodes[base].gradient,
                   FMul(nodes[exponent].data,
                        Powf(libm, nodes[base].data, FSub(nodes[exponent].data, One))))
            /\ nodes[exponent].gradient = Zero

\* C3 as stated: the Power rule gives the base exponent * base^(exponent - 1)
\* and the exponent 0, and in any graph the visit of a Power node leaves the
\* gradient of its operand[1] as it was.
PowerNeverTouchesExponent ==
    /\ []PowerBaseRule
    /\ [][PowerVisit =>
            nodes'[nodes[Top.node].children[2]].gradient
                = nodes[nodes[Top.node].children[2]].gradient]_vars

\* C3 amended: the visit of a Power node leaves the gradient of its operand[1]
\* as it was unless operand[1] is the same node as operand[0], which then
\* receives the base's contribution and nothing else.
PowerTouchesExponentOnlyAsBase ==
    /\ []PowerBaseRule
    /\ [][PowerVisit =>
            LET base == nodes[Top.node].children[1]
                exponent == nodes[Top.node].children[2]
            IN  nodes'[exponent].gradient =
                    IF exponent # base THEN nodes[exponent].gradient
                    ELSE FAdd(nodes[exponent].gradient,
                              FMul(FMul(nodes[exponent].data,
                                        Powf(libm', nodes[base].data,
                                             FSub(nodes[exponent].data, One))),
                                   nodes[Top.node].gradient))]_vars

WitnessPowerRule ==
    /\ PowerOfLeaves
    /\ nodes[nodes[Root].children[1]].gradient # Zero
    /\ nodes[nodes[Root].children[1]].data # nodes[nodes[Root].children[2]].data

\* The call that has just returned is subtract(a, b).
SubtractStep == lastCall'.op = "subtract" /\ calls' = calls + 1

\* Root is the result of subtract(a, b): the Add node, the Multiply node and the
\* constant created by one call.
SubtractResult ==
    /\ nodes[Root].operation = "Addition"
    /\ Root >= 3
    /\ nodes[Root].children[2] = Root - 1
    /\ Root - 1 \notin held
    /\ Root - 2 \notin held
    /\ nodes[Root - 1].operation = "Multiplication"
    /\ nodes[Root - 1].children[2] = Root - 2

\* C4: subtract(a, b) appends a leaf -1, a Multiply node over [b, that leaf] and
\* the Add result over [a, the Multiply node], changes no existing node and
\* yields a.value - b.value; the gradients of distinct leaves a and b are then
\* 1 and -1, and that of a leaf subtracted from itself is 0.
SubtractIsSugar ==
    /\ [][SubtractStep =>
            LET a == lastCall'.a
                b == lastCall'.b
                l == Len(nodes)
            IN  /\ Len(nodes') = l + 3
                /\ SubSeq(nodes', 1, l) = nodes
                /\ held' = held \cup {l + 3}
                /\ nodes'[l + 1] = [data |-> FromInt(-1), children |-> <<>>,
                                    gradient |-> Zero, operation |-> "None"]
                /\ nodes'[l + 2].operation = "Multiplication"
                /\ nodes'[l + 2].children = <<b, l + 1>>
                /\ nodes'[l + 3].operation = "Addition"
                /\ nodes'[l + 3].children = <<a, l + 2>>
                /\ nodes'[l + 3].data = FSub(nodes[a].data, nodes[b].data)]_vars
    /\ [](PassDone /\ SubtractResult =>
            LET a == nodes[Root].children[1]
                b == nodes[Root - 1].children[1]
            IN  (IsLeaf(a) /\ IsLeaf(b)) =>
                    IF a = b THEN nodes[a].gradient = Zero
                    ELSE nodes[a].gradient = One /\ nodes[b].gradient = FromInt(-1))

WitnessSubtract ==
    /\ PassDone
    /\ SubtractResult
    /\ LET a == nodes[Root].children[1]
           b == nodes[Root - 1].children[1]
       IN  /\ a # b
           /\ IsLeaf(a)
           /\ IsLeaf(b)
           /\ nodes[a].data # nodes[b].data
           /\ nodes[a].gradient = One
           /\ nodes[b].gradient = FromInt(-1)

\* The call that has just returned is learn on node n.
LearnStep(n) ==
    /\ lastCall'.op = "learn"
    /\ lastCall'.a = n
    /\ (calls' # calls \/ iter' # iter)

\* C5: learn never fails and sets the value to d - g * rate, leaving the
\* gradient alone; as long as no gradient walk has been started every
\* gradient is 0 and learn leaves the value as it was.
LearnSubtractsScaledGradient ==
    /\ [](passes = 0 => \A n \in Nodes : nodes[n].gradient = Zero)
    /\ [][mode = "idle" => mode' # "panicked"]_vars
    /\ [][\A n \in Nodes : LearnStep(n) =>
            /\ nodes'[n].data =
                 FSub(nodes[n].data, FMul(nodes[n].gradient, lastCall'.rate))
            /\ nodes'[n].gradient = nodes[n].gradient
            /\ (passes = 0 => nodes'[n].data = nodes[n].data)]_vars

WitnessLearn ==
    /\ lastCall.op = "learn"
    /\ client = "any"
    /\ nodes[lastCall.a].gradient # Zero
    /\ nodes[lastCall.a].operation # "None"

\* C6: a second compute_gradients on the same root, straight after the first,
\* leaves every node with the gradient the first call left, whatever the
\* gradients were before: when the root is seeded, every node reachable from it
\* holds 0.
ComputeGradientsIdempotent ==
    /\ (PassDone /\ prev.valid) =>
          \A n \in 1..Len(prev.grads) : nodes[n].gradient = prev.grads[n]
    /\ AtSeed => \A n \in Reach(nodes, Root) : nodes[n].gradient = Zero

WitnessIdempotent ==
    /\ PassDone
    /\ prev.valid
    /\ \E n \in Reach(nodes, Root) : n # Root /\ nodes[n].gradient # Zero

\* The values a derived node could have if it were computed now.
Eval(ns, m) ==
    LET c == ns[m].children
    IN  CASE ns[m].operation = "Addition" -> {FAdd(ns[c[1]].data, ns[c[2]].data)}
          [] ns[m].operation = "Multiplication" -> {FMul(ns[c[1]].data, ns[c[2]].data)}
          [] ns[m].operation = "Power" -> PowfOutcomes(ns[c[1]].data, ns[c[2]].data)
          [] ns[m].operation = "Relu" -> FMaxOutcomes(ns[c[1]].data, Zero)
          [] OTHER -> {ns[m].data}

\* C7: the value of a node changes only in a learn call on that node; no call
\* changes the operation or the operands of a node.
ValueChangesOnlyByLearn ==
    [][\A n \in Nodes :
          /\ n <= Len(nodes')
          /\ nodes'[n].operation = nodes[n].operation
          /\ nodes'[n].children = nodes[n].children
          /\ (nodes'[n].data # nodes[n].data => LearnStep(n))]_vars

WitnessStaleParent ==
    /\ lastCall.op = "learn"
    /\ \E m \in Nodes :
          /\ lastCall.a \in {nodes[m].children[i] : i \in 1..Len(nodes[m].children)}
          /\ nodes[m].data \notin Eval(nodes, m)

\* C8: the learn step that ends an iteration of the training loop moves every
\* weight and the bias by its gradient times the learning rate.
TrainingUpdatesEveryParameter ==
    [][(client = "main" /\ iter' = iter + 1) =>
          \A q \in Params :
              nodes'[q].data = FSub(nodes[q].data, FMul(nodes[q].gradient, LearningRate))]_vars

Acyclic == \A n \in Nodes : \A i \in 1..Len(nodes[n].children) : nodes[n].children[i] < n

Walking == mode \in {"clear", "grad"}

\* The number of steps a visit of node n takes: the body, one call and one
\* visit per operand edge, and the return.
RECURSIVE VisitSteps(_, _)
VisitSteps(ns, n) ==
    LET c == ns[n].children
    IN  IF Len(c) = 0 THEN 2
        ELSE IF Len(c) = 1 THEN 3 + VisitSteps(ns, c[1])
        ELSE IF c[1] = c[2] THEN 4 + 2 * VisitSteps(ns, c[1])
        ELSE 4 + VisitSteps(ns, c[1]) + VisitSteps(ns, c[2])

\* The steps left in a visit of n whose loop is about to take child k.
LoopSteps(ns, n, k) ==
    IF k > Len(ns[n].children) THEN 1
    ELSE IF k = 1 THEN VisitSteps(ns, n) - 1
    ELSE 2 + VisitSteps(ns, ns[n].children[k])

RECURSIVE StackSteps(_, _)
StackSteps(ns, stk) ==
    IF stk = <<>> THEN 0
    ELSE LET f == Head(stk)
         IN  (IF f.idx = 0 THEN VisitSteps(ns, f.node) ELSE LoopSteps(ns, f.node, f.idx))
             + StackSteps(ns, Tail(stk))

\* The number of steps the running call still has to take.
Remaining ==
    CASE mode = "clear" -> StackSteps(nodes, stack) + 1 + VisitSteps(nodes, Root)
      [] mode = "grad" -> StackSteps(nodes, stack)
      [] OTHER -> 0

\* A step of the walk brings it one step closer to its end, and the walk ends
\* by returning.
Closer(before, after) ==
    /\ mode' \in {"clear", "grad", "idle"}
    /\ after = before - 1
    /\ (mode' = "idle" <=> after = 0)

\* C9: every operand of a node was constructed before the node, and a
\* compute_gradients call returns: the walk always has a next step, each step
\* brings it one step closer to its end, and it ends by returning.
ComputeGradientsTerminates ==
    /\ []Acyclic
    /\ [](Walking => AtSeed \/ AtBody(mode) \/ AtChild(mode) \/ AtEnd(mode))
    /\ [][Walking => Closer(Remaining, Remaining')]_vars

WitnessTerminates ==
    /\ PassDone
    /\ client = "any"
    /\ PathCount(nodes, Root, 1) >= 4

\* C10: no borrow is ever refused; the bodies mutably borrowed are exactly those
\* of the callers on the call path, and none of them is below the node visited.
BorrowDiscipline ==
    /\ mode # "panicked"
    /\ mutBorrows = {stack[i].node : i \in {j \in 1..Len(stack) : stack[j].idx >= 1}}
    /\ \A i \in 1..Len(stack) : i < Len(stack) => stack[i].idx >= 1
    /\ \A i, j \in 1..Len(stack) : i < j => stack[i].node \notin Reach(nodes, stack[j].node)

WitnessBorrowDiscipline ==
    /\ mode = "grad"
    /\ Len(stack) = 3
    /\ Top.idx = 1
    /\ nodes[stack[1].node].children = <<stack[2].node, stack[2].node>>
    /\ nodes[stack[1].node].operation = "Multiplication"
    /\ mutBorrows = {stack[1].node, stack[2].node, stack[3].node}

====
